---- MODULE Spec2Model ----
(***************************************************************************)
(* A model of src/lib/libraries.ts: getLibraries, the aggregation pipeline  *)
(* that validates the YAML documents of data/, enriches each with GitHub,   *)
(* NPM and Bundlephobia statistics through a key/value cache and a          *)
(* throttled fetcher, and returns the collection of library records.        *)
(*                                                                         *)
(* JavaScript objects are functions from their defined keys to values: a    *)
(* property that is undefined is a key that is not in the DOMAIN.  One      *)
(* action is one run-to-completion block of the single-threaded event loop: *)
(* the synchronous part of getLibraries (which runs every per-file task up  *)
(* to its first await), or the arrival of one fetch result followed by the  *)
(* continuation of the task that awaited it.                                *)
(***************************************************************************)
EXTENDS Integers, Sequences, FiniteSets, TLC

VARIABLES
    docs,      \* docs[i]: the parsed YAML document of paths[i] (input)
    cache,     \* the cache module's store: key -> payload
    task,      \* task[i]: the async callback of paths[i]: pc, locals, error
    items,     \* the items array of the current call
    outcome,   \* the promise getLibraries returned: idle/pending/resolved/rejected
    fetches,   \* fetches[i]: requests task i handed to throttledFetch (this call)
    lookups,   \* lookups[i]: keys task i passed to cache.get (this call)
    writes,    \* writes[i]: keys task i passed to cache.set (this call)
    received,  \* received[i]: what throttledFetch settled with, per request of task i
    failed,    \* the tasks whose promise rejected, in the order they rejected (this call)
    calls,     \* number of getLibraries calls made so far
    start,     \* the cache as it was when the current call began
    prev       \* summary of the previous call (<<>> before the second call)

vars == <<docs, cache, task, items, outcome, fetches, lookups, writes, received,
          failed, calls, start, prev>>

----------------------------------------------------------------------------
(* Bounds of the model *)

\* Largest page number a Link header's rel="last" part points to.
MaxLastPage == 3
\* Number of consecutive getLibraries calls.
MaxCalls == 2

----------------------------------------------------------------------------
(* Directory listing, paths and ids: lines 94-102 *)

EmptyObj == <<>>

DirListing ==
    << [name |-> "a", ext |-> ".yml"],
       [name |-> "b", ext |-> ".yml"],
       [name |-> "README", ext |-> ".md"] >>

\* paths = readdirSync(dataDir).filter(/\.yml$/).map(join)
paths == SelectSeq(DirListing, LAMBDA f : f.ext = ".yml")

\* basename(path, ".yml")
basename(path, ext) == IF path.ext = ext THEN path.name ELSE path.name \o path.ext

Tasks == 1..Len(paths)

----------------------------------------------------------------------------
(* Schemas: lines 14-87.  yup's object schemas validate the fields they     *)
(* declare and pass every other key through unchanged (no noUnknown(), no   *)
(* strict()).  validateSync returns the object it was given, with the keys  *)
(* it had.  Framework and feature values are booleans in the documents      *)
(* modelled here.                                                           *)

Has(obj, k) == k \in DOMAIN obj

\* githubRepoSchema: /^\S+\/\S+$/ over the repository strings of the model.
githubRepoSchema(s) == s \in {"o/r", "o/moved"}

\* booleanOrUrl / booleanOrString on a boolean value.
booleanOrUrl(v) == v = TRUE \/ v = FALSE

\* The keys frameworksSchema declares.
frameworksSchema == {"vanilla", "react", "vue", "angular", "jquery", "ember"}

\* Object.keys(Features), of ./features: a closed set of feature names.
Features == {"sorting", "filtering"}

\* yup.object(shape).validateSync(obj): every declared field that is present
\* is valid; undeclared keys are not looked at.
ShapeValid(obj, shape) == \A k \in DOMAIN obj \cap shape : booleanOrUrl(obj[k])


yamlSchema(obj) ==
    /\ Has(obj, "title")
    /\ Has(obj, "description")
    /\ Has(obj, "githubRepo") => githubRepoSchema(obj.githubRepo)
    /\ Has(obj, "ignoreBundlephobia") => booleanOrUrl(obj.ignoreBundlephobia)
    /\ Has(obj, "frameworks") => ShapeValid(obj.frameworks, frameworksSchema)
    /\ Has(obj, "features") => ShapeValid(obj.features, Features)

GithubNumbers == {"stars", "forks", "openIssues", "watchers", "subscribers",
                  "network", "contributors"}

NumbersValid(obj, shape) == \A k \in DOMAIN obj \cap shape : obj[k] \in Int

libraryInfoSchema(obj) ==
    /\ yamlSchema(obj)
    /\ Has(obj, "id")
    /\ Has(obj, "github") => NumbersValid(obj.github, GithubNumbers)
    /\ Has(obj, "npm") => NumbersValid(obj.npm, {"downloads"})
    /\ Has(obj, "bundlephobia") => NumbersValid(obj.bundlephobia, {"rawSize", "gzipSize"})

----------------------------------------------------------------------------
(* Source documents the model draws from *)

Plain == [title |-> "Grid", description |-> "A grid"]

Docs ==
    { Plain,
      Plain @@ [githubRepo |-> "o/r"],
      Plain @@ [npmPackage |-> "pkg"],
      Plain @@ [githubRepo |-> "o/r", npmPackage |-> "pkg", ignoreBundlephobia |-> FALSE,
                frameworks |-> [react |-> TRUE], features |-> [sorting |-> TRUE]],
      Plain @@ [githubRepo |-> "o/r", npmPackage |-> "pkg", ignoreBundlephobia |-> TRUE],
      \* no title
      [description |-> "A grid", githubRepo |-> "o/r", npmPackage |-> "pkg"],
      \* a feature key that is not in Features
      Plain @@ [githubRepo |-> "o/r", features |-> [sorting |-> TRUE, bogus |-> TRUE]],
      \* a framework key that frameworksSchema does not declare
      Plain @@ [npmPackage |-> "pkg", ignoreBundlephobia |-> TRUE,
                frameworks |-> [react |-> TRUE, svelte |-> TRUE]],
      \* documents that carry keys of the enriched record themselves
      Plain @@ [id |-> "b"],
      Plain @@ [github |-> [stars |-> 1]],
      Plain @@ [npm |-> [downloads |-> 1]],
      Plain @@ [npmPackage |-> "pkg", ignoreBundlephobia |-> TRUE,
                bundlephobia |-> [rawSize |-> 1]] }

----------------------------------------------------------------------------
(* Cache keys, requests and responses: lines 115-213 *)

key1(repo) == "gh-" \o repo \o "-info"
key2(repo) == "gh-" \o repo \o "-contributors"
npmKey(name) == "npm-" \o name
bundlephobiaKey(name) == "bundlephobia-" \o name

pageSize == 100

InfoRequest(repo) == [api |-> "github/repos", repo |-> repo]
ContributorsRequest(repo) == [api |-> "github/contributors", repo |-> repo, per_page |-> pageSize]
LastPageRequest(repo, page) ==
    [api |-> "github/contributors", repo |-> repo, per_page |-> pageSize, page |-> page]
NpmRequest(name) == [api |-> "npm/downloads", name |-> name]
BundlephobiaRequest(name) == [api |-> "bundlephobia/size", name |-> name]

\* The repository payload of api.github.com/repos/{repo}.
RepoPayload(fullName, n) ==
    [full_name |-> fullName, html_url |-> "https://github.com/" \o fullName,
     stargazers_count |-> n, forks_count |-> n + 1, open_issues_count |-> n + 2,
     watchers_count |-> n + 3, subscribers_count |-> n + 4, network_count |-> n + 5]

\* An array of n contributor entries.
Contributors(n) == [k \in 1..n |-> [login |-> "user"]]

\* A Link header, already split at its commas: each part has a rel and,
\* when its URL carries one, a page number.
LinkHeaders ==
    { << [rel |-> "next", page |-> 2], [rel |-> "last", page |-> L] >> : L \in 2..MaxLastPage }
    \cup { << [rel |-> "next", page |-> 2] >>, << [rel |-> "last"] >> }

Headers == {EmptyObj} \cup { [link |-> h] : h \in LinkHeaders }

\* What throttledFetch resolves with: { data, headers }.
InfoResponses == { [data |-> RepoPayload(fn, 70), headers |-> EmptyObj] : fn \in {"o/r", "o/moved"} }
Page1Responses ==
    { [data |-> Contributors(pageSize), headers |-> h] : h \in Headers }
    \cup { [data |-> Contributors(37), headers |-> h] :
             h \in {EmptyObj, [link |-> << [rel |-> "last", page |-> 1] >>]} }
LastPageResponses == { [data |-> Contributors(n), headers |-> EmptyObj] : n \in {42} }
NpmResponses == { [data |-> [downloads |-> 900], headers |-> EmptyObj] }
BundlephobiaResponses == { [data |-> [size |-> 5000, gzip |-> 2000], headers |-> EmptyObj] }

\* What throttledFetch rejects with: an error, with a response or without.
\* Only the catch block of Bundlephobia reads err.response; the others put
\* the error into their message as it is.
FetchErrors(pc) ==
    { [message |-> "failed"] }
    \cup IF pc = "awaitBundlephobia"
         THEN { [message |-> "failed", response |-> [status |-> 500]] }
         ELSE {}

\* A cache filled by earlier runs.
WarmCache ==
    (key1("o/r") :> RepoPayload("o/r", 50))
    @@ (key2("o/r") :> [contributors |-> 12])
    @@ (npmKey("pkg") :> [url |-> "https://www.npmjs.com/package/pkg", downloads |-> 800])
    @@ (bundlephobiaKey("pkg") :>
          [url |-> "https://bundlephobia.com/result?p=pkg", rawSize |-> 3000, gzipSize |-> 1000])

\* The caches a call can start from: any part of it may have been evicted.
Restrict(f, S) == [k \in S |-> f[k]]
Caches == { Restrict(WarmCache, S) : S \in SUBSET DOMAIN WarmCache }

----------------------------------------------------------------------------
(* The per-file task: lines 101-228.  The operators below take and return   *)
(* a world w = [cache, task, items, outcome, fetches, lookups, writes,      *)
(* received]: a block of the task's code applied to the state of the        *)
(* program.                                                                 *)

NewTask == [pc |-> "start", id |-> "", item |-> EmptyObj, data |-> EmptyObj,
            stats |-> EmptyObj, lastPage |-> 0, err |-> EmptyObj]

\* The cache module (./cache), by its interface: get(key) gives the payload
\* last set under the key, or nothing.
cache_has(c, key) == key \in DOMAIN c
cache_get(c, key) == c[key]
cache_set(c, key, value) == (key :> value) @@ c

\* cache.get(key), as the tests "if (!data)" see it.
Hit(w, key) == cache_has(w.cache, key)

Looked(w, i, key) == [w EXCEPT !.lookups[i] = @ \cup {key}]

\* Mutant: once the call has rejected, the tasks still running write nothing.
StoredUnlessRejected(w, i, key, value) ==
    IF w.outcome.state = "rejected" THEN w
    ELSE [w EXCEPT !.cache = cache_set(@, key, value), !.writes[i] = @ \cup {key}]

\* cache.set(key, value)
Stored(w, i, key, value) ==
    [w EXCEPT !.cache = cache_set(@, key, value), !.writes[i] = @ \cup {key}]

\* await throttledFetch(url): the request is handed over and the task waits.
Awaiting(w, i, request, pc) ==
    [w EXCEPT !.fetches[i] = Append(@, request), !.task[i].pc = pc]

Goto(w, i, pc) == [w EXCEPT !.task[i].pc = pc]

\* Mutant: the rejection of a task does not settle the promise of the call.
RejectNone(o, err) == o

\* Mutant: a later rejection replaces the error of the call.
RejectLast(o, err) ==
    IF o.state \in {"pending", "rejected"} THEN [state |-> "rejected", err |-> err] ELSE o

\* Promise.all rejects with the first rejection it sees (lines 100, 229).
RejectAll(o, err) == IF o.state = "pending" THEN [state |-> "rejected", err |-> err] ELSE o

\* The task throws: its promise rejects.
Throw(w, i, err) ==
    [w EXCEPT !.task[i].pc = "rejected", !.task[i].err = err,
              !.outcome = RejectAll(@, err), !.failed = Append(@, i)]

\* Lines 231-238: run once every task's promise is fulfilled.
SanityCheck(its) ==
    IF Len(its) /= Len(paths)
    THEN [state |-> "rejected", err |-> [kind |-> "Incomplete data"]]
    ELSE [state |-> "resolved", value |-> its]

\* Mutant: the last task to fulfil does not settle the promise of the call.
PushNotSettling(w, i) ==
    LET item == w.task[i].item IN
    IF ~libraryInfoSchema(item)
    THEN Throw(w, i, [kind |-> "ValidationError"])
    ELSE [w EXCEPT !.items = Append(@, item), !.task[i].pc = "fulfilled"]

\* Mutant: a record whose id is already in items is not pushed again.
PushOncePerId(w, i) ==
    LET item == w.task[i].item
        its == IF \E k \in 1..Len(w.items) : w.items[k].id = item.id
               THEN w.items ELSE Append(w.items, item)
        done == \A j \in Tasks \ {i} : w.task[j].pc = "fulfilled"
    IN  IF ~libraryInfoSchema(item)
        THEN Throw(w, i, [kind |-> "ValidationError"])
        ELSE [w EXCEPT !.items = its, !.task[i].pc = "fulfilled",
                       !.outcome = IF done /\ @.state = "pending" THEN SanityCheck(its) ELSE @]

\* Line 227 and the end of the callback.
Push(w, i) ==
    LET item == w.task[i].item
        its == Append(w.items, item)
        done == \A j \in Tasks \ {i} : w.task[j].pc = "fulfilled"
    IN  IF ~libraryInfoSchema(item)
        THEN Throw(w, i, [kind |-> "ValidationError"])
        ELSE [w EXCEPT !.items = its, !.task[i].pc = "fulfilled",
                       !.outcome = IF done /\ @.state = "pending" THEN SanityCheck(its) ELSE @]

\* Lines 102-111.
Load(w, i) ==
    LET id == basename(paths[i], ".yml")
        obj == docs[i]
        item == obj @@ [id |-> id]
        w1 == [w EXCEPT !.task[i].id = id]
    IN  IF ~yamlSchema(obj)
        THEN Throw(w1, i, [kind |-> "is not valid", path |-> paths[i]])
        ELSE IF ~libraryInfoSchema(item)
        THEN Throw(w1, i, [kind |-> "ValidationError"])
        ELSE [w1 EXCEPT !.task[i].item = item, !.task[i].pc = "github"]

\* Mutant: the repository request is not awaited, the task goes on to the
\* package downloads at once.
GithubInfoNotAwaited(w, i) ==
    LET item == w.task[i].item IN
    IF Has(item, "githubRepo")
    THEN Awaiting(Looked(w, i, key1(item.githubRepo)), i, InfoRequest(item.githubRepo), "npm")
    ELSE Goto(w, i, "npm")

\* Lines 114-121.
GithubInfo(w, i) ==
    LET item == w.task[i].item IN
    IF Has(item, "githubRepo")
    THEN LET key == key1(item.githubRepo)
             w1 == Looked(w, i, key)
         IN  IF Hit(w1, key)
             THEN [w1 EXCEPT !.task[i].data = cache_get(w1.cache, key), !.task[i].pc = "contributors"]
             ELSE Awaiting(w1, i, InfoRequest(item.githubRepo), "awaitInfo")
    ELSE Goto(w, i, "npm")

\* Lines 136-142.
GithubContributors(w, i) ==
    LET item == w.task[i].item
        key == key2(item.githubRepo)
        w1 == Looked(w, i, key)
    IN  IF Hit(w1, key)
        THEN [w1 EXCEPT !.task[i].stats = cache_get(w1.cache, key), !.task[i].pc = "merge"]
        ELSE Awaiting(w1, i, ContributorsRequest(item.githubRepo), "awaitPage1")

\* An object literal { k: src[from[k]] }: a key whose source property is
\* undefined is left out.
Project(src, from) == [k \in {k \in DOMAIN from : from[k] \in DOMAIN src} |-> src[from[k]]]

GithubFields ==
    [url |-> "html_url", stars |-> "stargazers_count", forks |-> "forks_count",
     openIssues |-> "open_issues_count", watchers |-> "watchers_count",
     subscribers |-> "subscribers_count", network |-> "network_count"]

\* Mutant: stars read from the forks count.
GithubBlockSwapped(data, stats) ==
    Project(data, [GithubFields EXCEPT !.stars = "forks_count"])
        @@ Project(stats, [contributors |-> "contributors"])

\* Lines 162-171.
GithubBlock(data, stats) ==
    Project(data, GithubFields) @@ Project(stats, [contributors |-> "contributors"])

MergeGithub(w, i) ==
    LET t == w.task[i] IN
    [w EXCEPT !.task[i].item = [github |-> GithubBlock(t.data, t.stats)] @@ @,
              !.task[i].pc = "npm"]

\* Mutant: the cached downloads are not used.
NpmAlwaysFetch(w, i) ==
    LET item == w.task[i].item IN
    IF Has(item, "npmPackage")
    THEN Awaiting(Looked(w, i, npmKey(item.npmPackage)), i,
                  NpmRequest(item.npmPackage), "awaitNpm")
    ELSE Goto(w, i, "bundlephobia")

\* Lines 175-183 and 194 on a hit.
Npm(w, i) ==
    LET item == w.task[i].item IN
    IF Has(item, "npmPackage")
    THEN LET key == npmKey(item.npmPackage)
             w1 == Looked(w, i, key)
         IN  IF Hit(w1, key)
             THEN [w1 EXCEPT !.task[i].item = [npm |-> cache_get(w1.cache, key)] @@ @,
                             !.task[i].pc = "bundlephobia"]
             ELSE Awaiting(w1, i, NpmRequest(item.npmPackage), "awaitNpm")
    ELSE Goto(w, i, "bundlephobia")

\* The test of line 198.
WantsBundlephobia(item) ==
    Has(item, "npmPackage") /\ ~(Has(item, "ignoreBundlephobia") /\ item.ignoreBundlephobia = TRUE)

\* Lines 198-206 and 224 on a hit.
Bundlephobia(w, i) ==
    LET item == w.task[i].item IN
    IF WantsBundlephobia(item)
    THEN LET key == bundlephobiaKey(item.npmPackage)
             w1 == Looked(w, i, key)
         IN  IF Hit(w1, key)
             THEN [w1 EXCEPT !.task[i].item = [bundlephobia |-> cache_get(w1.cache, key)] @@ @,
                             !.task[i].pc = "push"]
             ELSE Awaiting(w1, i, BundlephobiaRequest(item.npmPackage), "awaitBundlephobia")
    ELSE Goto(w, i, "push")

SyncPcs == {"start", "github", "contributors", "merge", "npm", "bundlephobia", "push"}
AwaitPcs == {"awaitInfo", "awaitPage1", "awaitLastPage", "awaitNpm", "awaitBundlephobia"}
SettledPcs == {"fulfilled", "rejected"}

Block(w, i) ==
    LET pc == w.task[i].pc IN
    CASE pc = "start" -> Load(w, i)
      [] pc = "github" -> GithubInfo(w, i)
      [] pc = "contributors" -> GithubContributors(w, i)
      [] pc = "merge" -> MergeGithub(w, i)
      [] pc = "npm" -> Npm(w, i)
      [] pc = "bundlephobia" -> Bundlephobia(w, i)
      [] pc = "push" -> Push(w, i)

\* Task i runs until it awaits a fetch or settles (each block runs on the
\* world its predecessor left, computed once).
RECURSIVE Continue(_, _)
Continue(w, i) ==
    CHOOSE r \in {IF v.task[i].pc \in SyncPcs THEN Continue(Block(v, i), i) ELSE v : v \in {w}} :
        TRUE

----------------------------------------------------------------------------
(* Continuations: what a task does with the result of the fetch it awaits. *)

\* Mutant: the payload is cached before its full_name is compared.
OnInfoStoreFirst(w, i, res) ==
    LET t == w.task[i]
        repo == t.item.githubRepo
        data == res.data
        w1 == Stored(w, i, key1(repo), data)
    IN  IF ~Has(data, "full_name") \/ data.full_name /= repo
        THEN Throw(w1, i, [kind |-> "Error getting GitHub data", id |-> t.id,
                           cause |-> "has moved"])
        ELSE Continue([w1 EXCEPT !.task[i].data = data, !.task[i].pc = "contributors"], i)

\* Lines 122-134, then on.
OnInfo(w, i, res) ==
    LET t == w.task[i]
        repo == t.item.githubRepo
        data == res.data
    IN  IF ~Has(data, "full_name") \/ data.full_name /= repo
        THEN Throw(w, i, [kind |-> "Error getting GitHub data", id |-> t.id,
                          cause |-> "has moved"])
        ELSE Continue([Stored(w, i, key1(repo), data) EXCEPT
                          !.task[i].data = data, !.task[i].pc = "contributors"], i)

\* Lines 147-150: the page number of the first part with rel="last";
\* Number(null) is 0 when there is no such part or no page number in it.
LastPage(header) ==
    LET last == {k \in 1..Len(header) : header[k].rel = "last"} IN
    IF last = {} THEN 0
    ELSE LET part == header[CHOOSE k \in last : \A m \in last : k <= m]
         IN  IF Has(part, "page") THEN part.page ELSE 0

\* Lines 153-156, then on.
Counted(w, i, total) ==
    LET stats == [contributors |-> total] IN
    Continue([Stored(w, i, key2(w.task[i].item.githubRepo), stats) EXCEPT
                 !.task[i].stats = stats, !.task[i].pc = "merge"], i)

\* Lines 143-151.
OnPage1(w, i, res) ==
    LET data == res.data
        repo == w.task[i].item.githubRepo
    IN  IF Len(data) < pageSize \/ ~Has(res.headers, "link")
        THEN Counted(w, i, Len(data))
        ELSE LET lastPage == LastPage(res.headers.link) IN
             Awaiting([w EXCEPT !.task[i].lastPage = lastPage], i,
                      LastPageRequest(repo, lastPage), "awaitLastPage")

\* Mutant: the last page is counted as one more full page.
OnLastPageOffByOne(w, i, res) ==
    Counted(w, i, pageSize * w.task[i].lastPage + Len(res.data))

\* Lines 152-156.
OnLastPage(w, i, res) ==
    Counted(w, i, pageSize * (w.task[i].lastPage - 1) + Len(res.data))

\* Lines 184-189: data is the fetch result itself.
NpmBlock(name, res) ==
    [url |-> "https://www.npmjs.com/package/" \o name] @@ Project(res, [downloads |-> "downloads"])

\* Mutant: the payload is cached as it came, not the block made of it.
OnNpmCachesPayload(w, i, res) ==
    LET name == w.task[i].item.npmPackage
        npm == NpmBlock(name, res)
    IN  Continue([Stored(w, i, npmKey(name), res.data) EXCEPT
                     !.task[i].item = [npm |-> npm] @@ @, !.task[i].pc = "bundlephobia"], i)

\* Lines 184-194, then on.
OnNpm(w, i, res) ==
    LET name == w.task[i].item.npmPackage
        npm == NpmBlock(name, res)
    IN  Continue([Stored(w, i, npmKey(name), npm) EXCEPT
                     !.task[i].item = [npm |-> npm] @@ @, !.task[i].pc = "bundlephobia"], i)

\* Lines 207-212: data is the fetch result itself.
BundlephobiaBlock(name, res) ==
    [url |-> "https://bundlephobia.com/result?p=" \o name]
        @@ Project(res, [rawSize |-> "size", gzipSize |-> "gzip"])

\* Mutant: the bundle sizes are merged but not written to the cache.
OnBundlephobiaNotCached(w, i, res) ==
    LET bundlephobia == BundlephobiaBlock(w.task[i].item.npmPackage, res)
    IN  Continue([w EXCEPT !.task[i].item = [bundlephobia |-> bundlephobia] @@ @,
                           !.task[i].pc = "push"], i)

\* Lines 207-224, then on.
OnBundlephobia(w, i, res) ==
    LET name == w.task[i].item.npmPackage
        bundlephobia == BundlephobiaBlock(name, res)
    IN  Continue([Stored(w, i, bundlephobiaKey(name), bundlephobia) EXCEPT
                     !.task[i].item = [bundlephobia |-> bundlephobia] @@ @,
                     !.task[i].pc = "push"], i)

\* The catch blocks: lines 131-133, 157-159, 190-192, 214-222.
Caught(t, err) ==
    CASE t.pc = "awaitInfo" ->
            [kind |-> "Error getting GitHub data", id |-> t.id, cause |-> err.message]
      [] t.pc \in {"awaitPage1", "awaitLastPage"} ->
            [kind |-> "Error getting GitHub stats", id |-> t.id, cause |-> err.message]
      [] t.pc = "awaitNpm" ->
            [kind |-> "Error getting NPM data", name |-> t.item.npmPackage, cause |-> err.message]
      [] t.pc = "awaitBundlephobia" ->
            IF Has(err, "response")
            THEN [kind |-> "Bundlephobia API returned", status |-> err.response.status,
                  name |-> t.item.npmPackage]
            ELSE [kind |-> "Bundlephobia failed", name |-> t.item.npmPackage, cause |-> err.message]

\* Mutant: a 500 of Bundlephobia is ignored, the record goes on without the
\* block.
OnErrorIgnoring500(w, i, err) ==
    IF w.task[i].pc = "awaitBundlephobia" /\ Has(err, "response")
    THEN Continue(Goto(w, i, "push"), i)
    ELSE Throw(w, i, Caught(w.task[i], err))

OnError(w, i, err) == Throw(w, i, Caught(w.task[i], err))

----------------------------------------------------------------------------
(* State machine *)

World ==
    [cache |-> cache, task |-> task, items |-> items, outcome |-> outcome,
     fetches |-> fetches, lookups |-> lookups, writes |-> writes, received |-> received,
     failed |-> failed]

\* The fetch task i awaits settles with r.
Settled(i, r) == [World EXCEPT !.received[i] = Append(@, r)]

\* The step leaves the world as w (computed once, then assigned).
Becomes(w) ==
    \E v \in {w} :
        /\ cache' = v.cache
        /\ task' = v.task
        /\ items' = v.items
        /\ outcome' = v.outcome
        /\ fetches' = v.fetches
        /\ lookups' = v.lookups
        /\ writes' = v.writes
        /\ received' = v.received
        /\ failed' = v.failed

Init ==
    /\ docs \in [Tasks -> Docs]
    /\ cache \in Caches
    /\ task = [i \in Tasks |-> NewTask]
    /\ items = <<>>
    /\ outcome = [state |-> "idle"]
    /\ fetches = [i \in Tasks |-> <<>>]
    /\ lookups = [i \in Tasks |-> {}]
    /\ writes = [i \in Tasks |-> {}]
    /\ received = [i \in Tasks |-> <<>>]
    /\ failed = <<>>
    /\ calls = 0
    /\ start = cache
    /\ prev = <<>>

\* paths.map(async ...): every callback runs, in the order of paths, up to
\* its first await.
RECURSIVE Map(_, _)
Map(w, i) == IF i > Len(paths) THEN w ELSE Map(Continue(w, i), i + 1)

Fetched == \E i \in Tasks : fetches[i] /= <<>>

\* The pipeline is run again after a call that left nothing to retry: it
\* resolved, or it failed without a fetch.  (A retry after a failed fetch is
\* a first call from the partly filled cache, which Init covers.)
Repeatable ==
    /\ \A i \in Tasks : task[i].pc \in SettledPcs
    /\ outcome.state = "resolved" \/ ~Fetched

\* A call of getLibraries: lines 92-101, with the synchronous part of every
\* task.
getLibraries ==
    /\ calls < MaxCalls
    /\ outcome.state = "idle" \/ Repeatable
    /\ Becomes(Map([cache |-> cache, task |-> [i \in Tasks |-> NewTask], items |-> <<>>,
                    outcome |-> [state |-> "pending"],
                    fetches |-> [i \in Tasks |-> <<>>],
                    lookups |-> [i \in Tasks |-> {}],
                    writes |-> [i \in Tasks |-> {}],
                    received |-> [i \in Tasks |-> <<>>],
                    failed |-> <<>>], 1))
    /\ calls' = calls + 1
    /\ start' = cache
    /\ prev' = IF calls = 0 THEN <<>>
               ELSE [start |-> start, cache |-> cache, outcome |-> outcome, fetched |-> Fetched]
    /\ UNCHANGED docs

Frame == UNCHANGED <<docs, calls, start, prev>>

InfoArrives(i) ==
    /\ task[i].pc = "awaitInfo"
    /\ \E res \in InfoResponses : Becomes(OnInfo(Settled(i, res), i, res))
    /\ Frame

Page1Arrives(i) ==
    /\ task[i].pc = "awaitPage1"
    /\ \E res \in Page1Responses : Becomes(OnPage1(Settled(i, res), i, res))
    /\ Frame

LastPageArrives(i) ==
    /\ task[i].pc = "awaitLastPage"
    /\ \E res \in LastPageResponses : Becomes(OnLastPage(Settled(i, res), i, res))
    /\ Frame

NpmArrives(i) ==
    /\ task[i].pc = "awaitNpm"
    /\ \E res \in NpmResponses : Becomes(OnNpm(Settled(i, res), i, res))
    /\ Frame

BundlephobiaArrives(i) ==
    /\ task[i].pc = "awaitBundlephobia"
    /\ \E res \in BundlephobiaResponses : Becomes(OnBundlephobia(Settled(i, res), i, res))
    /\ Frame

FetchRejects(i) ==
    /\ task[i].pc \in AwaitPcs
    /\ \E err \in FetchErrors(task[i].pc) : Becomes(OnError(Settled(i, err), i, err))
    /\ Frame

Next ==
    \/ getLibraries
    \/ \E i \in Tasks : InfoArrives(i)
    \/ \E i \in Tasks : Page1Arrives(i)
    \/ \E i \in Tasks : LastPageArrives(i)
    \/ \E i \in Tasks : NpmArrives(i)
    \/ \E i \in Tasks : BundlephobiaArrives(i)
    \/ \E i \in Tasks : FetchRejects(i)

Spec == Init /\ [][Next]_vars

\* The request task i awaits completes, with a response or with an error.
Completes(i) ==
    \/ InfoArrives(i)
    \/ Page1Arrives(i)
    \/ LastPageArrives(i)
    \/ NpmArrives(i)
    \/ BundlephobiaArrives(i)
    \/ FetchRejects(i)

\* The first call finds the cache empty: every sub-procedure has to fetch.
InitCold == Init /\ cache = EmptyObj

\* The pipeline from an empty cache, with a fetcher that settles every
\* request handed to it.
FairSpec == InitCold /\ [][Next]_vars /\ \A i \in Tasks : WF_vars(Completes(i))

\* The external services answer a request the same way every time it is
\* made: requests that are equal have settled with the same result.
Fixed ==
    \A i, j \in Tasks : \A k \in 1..Len(received[i]) : \A m \in 1..Len(received[j]) :
        fetches[i][k] = fetches[j][m] => received[i][k] = received[j][m]

NextFixed ==
    \/ getLibraries
    \/ \E i \in Tasks : InfoArrives(i) /\ Fixed'
    \/ \E i \in Tasks : Page1Arrives(i) /\ Fixed'
    \/ \E i \in Tasks : LastPageArrives(i) /\ Fixed'
    \/ \E i \in Tasks : NpmArrives(i) /\ Fixed'
    \/ \E i \in Tasks : BundlephobiaArrives(i) /\ Fixed'
    \/ \E i \in Tasks : FetchRejects(i) /\ Fixed'

\* The pipeline against services whose answers are fixed per request.
SpecFixed == Init /\ [][NextFixed]_vars

----------------------------------------------------------------------------
(* Vocabulary of the properties *)

\* The id of the record of paths[i]: the file name without its extension.
FileId(i) == paths[i].name

BundlephobiaAsked(obj) ==
    Has(obj, "npmPackage") /\ ~(Has(obj, "ignoreBundlephobia") /\ obj.ignoreBundlephobia = TRUE)

\* The enrichment keys a document needs.
NeededKeys(obj) ==
    (IF Has(obj, "githubRepo")
     THEN {"gh-" \o obj.githubRepo \o "-info", "gh-" \o obj.githubRepo \o "-contributors"}
     ELSE {})
    \cup (IF Has(obj, "npmPackage") THEN {"npm-" \o obj.npmPackage} ELSE {})
    \cup (IF BundlephobiaAsked(obj) THEN {"bundlephobia-" \o obj.npmPackage} ELSE {})

\* The github block that the cache c holds for a repository.
CachedGithub(c, repo) ==
    LET info == c["gh-" \o repo \o "-info"]
        stats == c["gh-" \o repo \o "-contributors"]
    IN  [url |-> info.html_url, stars |-> info.stargazers_count, forks |-> info.forks_count,
         openIssues |-> info.open_issues_count, watchers |-> info.watchers_count,
         subscribers |-> info.subscribers_count, network |-> info.network_count,
         contributors |-> stats.contributors]

Returned(r) == \E k \in 1..Len(items) : items[k] = r

----------------------------------------------------------------------------
\* C1: a record whose enrichment keys are all in the cache when the call
\* begins causes no fetch, and its github, npm and bundlephobia blocks are
\* the cached values.
C1_WarmRecordFromCache ==
    \A i \in Tasks :
        (calls > 0 /\ NeededKeys(docs[i]) \subseteq DOMAIN start) =>
            /\ fetches[i] = <<>>
            /\ task[i].pc \in SettledPcs
            /\ task[i].pc = "fulfilled" =>
                 LET r == task[i].item IN
                 /\ Returned(r)
                 /\ Has(docs[i], "githubRepo") =>
                      Has(r, "github") /\ r.github = CachedGithub(start, docs[i].githubRepo)
                 /\ Has(docs[i], "npmPackage") =>
                      Has(r, "npm") /\ r.npm = start["npm-" \o docs[i].npmPackage]
                 /\ BundlephobiaAsked(docs[i]) =>
                      /\ Has(r, "bundlephobia")
                      /\ r.bundlephobia = start["bundlephobia-" \o docs[i].npmPackage]

\* A record with a repository is served from the cache while the other
\* record of the call has to fetch.
C1_Witness ==
    \E i, j \in Tasks :
        /\ calls > 0
        /\ Has(docs[i], "githubRepo")
        /\ NeededKeys(docs[i]) \subseteq DOMAIN start
        /\ task[i].pc = "fulfilled"
        /\ Has(task[i].item, "github")
        /\ fetches[j] /= <<>>

\* The fetch of the repository metadata is the first request of task i and
\* has settled with r.
InfoSettledWith(i, r) ==
    /\ Has(docs[i], "githubRepo")
    /\ Len(fetches[i]) >= 1
    /\ fetches[i][1].api = "github/repos"
    /\ Len(received[i]) >= 1
    /\ received[i][1] = r

\* C2: a repository payload whose full_name is not the declared githubRepo
\* makes the record fail with the 'has moved' error, and the record writes
\* nothing under gh-{repo}-info: the key stays absent when it was absent and
\* no other record wrote it.
C2_MovedRepoNotCached ==
    \A i \in Tasks : \A r \in InfoResponses :
        (InfoSettledWith(i, r) /\ r.data.full_name /= docs[i].githubRepo) =>
            LET key == "gh-" \o docs[i].githubRepo \o "-info" IN
            /\ task[i].pc = "rejected"
            /\ task[i].err = [kind |-> "Error getting GitHub data", id |-> FileId(i),
                              cause |-> "has moved"]
            /\ key \notin writes[i]
            /\ (\A j \in Tasks : key \notin writes[j]) => key \notin DOMAIN cache

C2_Witness ==
    \E i \in Tasks : \E r \in InfoResponses :
        /\ InfoSettledWith(i, r)
        /\ r.data.full_name = "o/moved"
        /\ task[i].pc = "rejected"
        /\ "gh-o/r-info" \notin DOMAIN cache

\* C3: getLibraries rejects, or resolves with exactly one record per source
\* file: as many records as files, and each file's id on exactly one record.
C3_AllOrNothing ==
    outcome.state = "resolved" =>
        /\ Len(outcome.value) = Len(paths)
        /\ \A i \in Tasks :
             Cardinality({k \in 1..Len(outcome.value) : outcome.value[k].id = FileId(i)}) = 1

\* C4: when the repository-metadata fetch of one record fails on a cache
\* miss and no other record fails, getLibraries rejects, and its error names
\* that record's id and the GitHub data as the source.
C4_OneFailureFailsRun ==
    \A i \in Tasks : \A e \in FetchErrors("awaitInfo") :
        (/\ InfoSettledWith(i, e)
         /\ \A j \in Tasks \ {i} : task[j].pc /= "rejected") =>
            /\ outcome.state = "rejected"
            /\ outcome.err.kind = "Error getting GitHub data"
            /\ outcome.err.id = FileId(i)

\* The other record has been pushed, and the run has failed all the same.
C4_Witness ==
    \E i \in Tasks : \E e \in FetchErrors("awaitInfo") :
        /\ InfoSettledWith(i, e)
        /\ \A j \in Tasks \ {i} : task[j].pc = "fulfilled" /\ fetches[j] /= <<>>
        /\ outcome.state = "rejected"

\* C5: in every returned record the github block is present iff githubRepo
\* is set, the npm block iff npmPackage is set, and the bundlephobia block
\* iff npmPackage is set and ignoreBundlephobia is not true.
C5_BlocksIffDeclared ==
    outcome.state = "resolved" =>
        \A k \in 1..Len(outcome.value) :
            LET r == outcome.value[k] IN
            /\ Has(r, "github") <=> Has(r, "githubRepo")
            /\ Has(r, "npm") <=> Has(r, "npmPackage")
            /\ Has(r, "bundlephobia") <=> BundlephobiaAsked(r)

\* C6: for a record with npmPackage set and ignoreBundlephobia true there is
\* no bundle-size request, no lookup or write of bundlephobia-{package}, and
\* no bundlephobia block on the record pushed; its npm lookup is made.
C6_IgnoreBundlephobia ==
    \A i \in Tasks :
        (/\ calls > 0
         /\ Has(docs[i], "npmPackage")
         /\ Has(docs[i], "ignoreBundlephobia")
         /\ docs[i].ignoreBundlephobia = TRUE) =>
            LET key == "bundlephobia-" \o docs[i].npmPackage IN
            /\ \A k \in 1..Len(fetches[i]) : fetches[i][k].api /= "bundlephobia/size"
            /\ key \notin lookups[i] \cup writes[i]
            /\ task[i].pc = "fulfilled" =>
                 /\ ~Has(task[i].item, "bundlephobia")
                 /\ ("npm-" \o docs[i].npmPackage) \in lookups[i]

\* The first-page request for the contributors is request n of task i and
\* has settled with the response r.
Page1SettledWith(i, n, r) ==
    /\ n <= Len(received[i])
    /\ fetches[i][n].api = "github/contributors"
    /\ ~Has(fetches[i][n], "page")
    /\ received[i][n] = r

\* The page the rel="last" part of a Link header points to is L.
LastIs(header, L) ==
    \E k \in 1..Len(header) :
        header[k].rel = "last" /\ Has(header[k], "page") /\ header[k].page = L

ContributorRequests(i) ==
    {k \in 1..Len(fetches[i]) : fetches[i][k].api = "github/contributors"}

\* C7: on a contributors cache miss, a first page of fewer than 100 entries,
\* or one without a Link header, gives the number of entries as the count and
\* no second request; otherwise one more request is made, for the page L of
\* the rel="last" part, and the count is 100 * (L - 1) + the entries of page L.
C7_ContributorCount ==
    \A i \in Tasks : \A n \in 1..Len(received[i]) : \A r \in Page1Responses :
        Page1SettledWith(i, n, r) =>
            IF Len(r.data) < 100 \/ ~Has(r.headers, "link")
            THEN /\ task[i].stats = [contributors |-> Len(r.data)]
                 /\ ContributorRequests(i) = {n}
            ELSE /\ ContributorRequests(i) = {n, n + 1}
                 /\ \A L \in 1..MaxLastPage :
                      LastIs(r.headers.link, L) =>
                          /\ fetches[i][n + 1].page = L
                          /\ \A m \in LastPageResponses :
                               (Len(received[i]) > n /\ received[i][n + 1] = m) =>
                                   task[i].stats =
                                       [contributors |-> 100 * (L - 1) + Len(m.data)]

\* 100 entries and a last page 3 of 42 entries give 242.
C7_Witness ==
    \E i \in Tasks : \E n \in 1..Len(received[i]) : \E r \in Page1Responses :
        /\ Page1SettledWith(i, n, r)
        /\ Len(r.data) = 100
        /\ Has(r.headers, "link")
        /\ LastIs(r.headers.link, 3)
        /\ Len(received[i]) > n
        /\ task[i].stats = [contributors |-> 242]
        /\ task[i].pc = "fulfilled"
        /\ task[i].item.github.contributors = 242

\* C8: the error of every record that fails in an enrichment sub-procedure
\* names the external source and the id of the record.
C8_ErrorsNameSourceAndId ==
    \A i \in Tasks :
        (task[i].pc = "rejected" /\ received[i] /= <<>>) =>
            /\ Has(task[i].err, "kind")
            /\ Has(task[i].err, "id")
            /\ task[i].err.id = FileId(i)

SixFrameworks == {"vanilla", "react", "vue", "angular", "jquery", "ember"}

UnknownKeys(obj) ==
    \/ Has(obj, "frameworks") /\ ~(DOMAIN obj.frameworks \subseteq SixFrameworks)
    \/ Has(obj, "features") /\ ~(DOMAIN obj.features \subseteq Features)

\* C9: a document with a frameworks or features key outside the closed
\* enumerations fails validation: its record is not enriched and not returned.
C9_UnknownKeysRejected ==
    \A i \in Tasks :
        (calls > 0 /\ UnknownKeys(docs[i])) =>
            /\ task[i].pc = "rejected"
            /\ lookups[i] = {}
            /\ fetches[i] = <<>>
            /\ \A k \in 1..Len(items) : items[k].id /= FileId(i)

\* C10: two calls over the same documents, the first of them starting with
\* every needed key in the cache, make no fetch, leave the cache as it was and
\* settle the same way, with the same records in the same order.
C10_WarmRunsIdentical ==
    (/\ calls >= 2
     /\ \A i \in Tasks : NeededKeys(docs[i]) \subseteq DOMAIN prev.start) =>
        /\ ~prev.fetched
        /\ \A i \in Tasks : fetches[i] = <<>>
        /\ prev.cache = prev.start
        /\ cache = prev.start
        /\ outcome = prev.outcome

C10_Witness ==
    /\ calls >= 2
    /\ \A i \in Tasks : NeededKeys(docs[i]) \subseteq DOMAIN prev.start
    /\ outcome.state = "resolved"
    /\ \E k \in 1..Len(outcome.value) :
         Has(outcome.value[k], "github") /\ Has(outcome.value[k], "bundlephobia")
    /\ outcome.value[1] /= outcome.value[2]

----------------------------------------------------------------------------
\* C11: when getLibraries has rejected, its error is the error of the task
\* that rejected first in the execution, whatever the place of that task's
\* file in the listing and however many tasks rejected after it.
C11_FirstErrorWins ==
    outcome.state = "rejected" =>
        /\ failed /= <<>>
        /\ outcome.err = task[failed[1]].err
        /\ \A k \in 1..Len(failed) : task[failed[k]].pc = "rejected"

\* Both tasks rejected with different errors, the task of the second file
\* first: the call carries the error of the second file.
C11_Witness ==
    /\ Len(paths) >= 2
    /\ failed = <<2, 1>>
    /\ task[1].err /= task[2].err
    /\ outcome.state = "rejected"
    /\ outcome.err = task[2].err

----------------------------------------------------------------------------
\* The place of a request's sub-procedure in the callback.
Rank(request) ==
    CASE request.api \in {"github/repos", "github/contributors"} -> 1
      [] request.api = "npm/downloads" -> 2
      [] request.api = "bundlephobia/size" -> 3

Outstanding(i) == Len(fetches[i]) - Len(received[i])

\* C12 as stated: the sub-procedures of one record run concurrently.  Were
\* they started together, a record that misses the cache for its repository
\* and for its package would have its package-download request issued
\* whenever its repository request is outstanding.
C12_SubproceduresConcurrent ==
    \A i \in Tasks :
        ( /\ task[i].pc = "awaitInfo"
          /\ Has(docs[i], "npmPackage")
          /\ npmKey(docs[i].npmPackage) \notin DOMAIN cache ) =>
            \E k \in 1..Len(fetches[i]) : Rank(fetches[i][k]) = 2

\* C12, amended: the sub-procedures of one record run one after the other
\* (repository statistics, package downloads, bundle size), each request
\* awaited before the next is issued: a record has at most one request
\* outstanding, its requests are issued in the order of the sub-procedures,
\* and a package-download or bundle-size request is issued only once the
\* repository sub-procedure is over and its block merged.  Requests of
\* different records are outstanding together.
C12_SubproceduresInSequence ==
    \A i \in Tasks :
        /\ Outstanding(i) \in {0, 1}
        /\ Outstanding(i) = 1 <=> task[i].pc \in AwaitPcs
        /\ \A k, m \in 1..Len(fetches[i]) : k < m => Rank(fetches[i][k]) <= Rank(fetches[i][m])
        /\ \A k \in 1..Len(fetches[i]) :
              (Rank(fetches[i][k]) > 1 /\ Has(docs[i], "githubRepo")) =>
                 /\ {key1(docs[i].githubRepo), key2(docs[i].githubRepo)} \subseteq lookups[i]
                 /\ Has(task[i].item, "github")
        /\ \A k \in 1..Len(fetches[i]) :
              Rank(fetches[i][k]) = 3 => Has(task[i].item, "npm")

\* A record fetched its repository, its downloads and its bundle size in
\* turn, while the other record had a request outstanding all along.
C12_Witness ==
    \E i, j \in Tasks :
        /\ i /= j
        /\ task[i].pc = "fulfilled"
        /\ {Rank(fetches[i][k]) : k \in 1..Len(fetches[i])} = {1, 2, 3}
        /\ task[j].pc = "awaitInfo"

----------------------------------------------------------------------------
\* The key a task writes when the request it awaits at pc is answered with
\* the response r and the task then stands at next (none for a first page
\* of contributors that asks for the last page, or a repository that moved).
KeysDue(obj, pc, r, next) ==
    CASE pc = "awaitInfo" ->
            IF Has(r.data, "full_name") /\ r.data.full_name = obj.githubRepo
            THEN {key1(obj.githubRepo)} ELSE {}
      [] pc = "awaitPage1" -> IF next = "awaitLastPage" THEN {} ELSE {key2(obj.githubRepo)}
      [] pc = "awaitLastPage" -> {key2(obj.githubRepo)}
      [] pc = "awaitNpm" -> {npmKey(obj.npmPackage)}
      [] pc = "awaitBundlephobia" -> {bundlephobiaKey(obj.npmPackage)}

\* C13: the rejection of the call cancels nothing of the other records.
\* After getLibraries has rejected, a task that receives the response to the
\* request it awaits takes it as before: it writes the cache key of its
\* sub-procedure, keeps what it wrote, and moves on to what comes next.
C13_NoCancellation ==
    [][\A j \in Tasks :
         ( /\ outcome.state = "rejected"
           /\ task[j].pc \in AwaitPcs
           /\ Len(received'[j]) = Len(received[j]) + 1
           /\ ~Has(received'[j][Len(received'[j])], "message") ) =>
             LET due == KeysDue(docs[j], task[j].pc, received'[j][Len(received'[j])],
                                task'[j].pc)
             IN  /\ task'[j].pc /= task[j].pc
                 /\ due \subseteq writes'[j]
                 /\ due \subseteq DOMAIN cache'
                 /\ writes[j] \subseteq writes'[j]]_vars

\* Task i failed validation before anything was fetched, so the call had
\* rejected when task j made its requests; task j went on to the end and
\* wrote to the cache.
C13_Witness ==
    \E i, j \in Tasks :
        /\ outcome.state = "rejected"
        /\ failed = <<i>>
        /\ task[i].err = [kind |-> "is not valid", path |-> paths[i]]
        /\ task[j].pc = "fulfilled"
        /\ Len(fetches[j]) >= 2
        /\ writes[j] /= {}

----------------------------------------------------------------------------
\* C14: with the answer to every request fixed, racing records agree.  In
\* every interleaving, a key a task wrote holds the value that task
\* computed (no other writer of the key left a different one), and the
\* blocks of every record that completed are the values the cache holds
\* under its keys: what the record would have read from the cache had it
\* run after the other record, and the same for both records of a key.
C14_RacesHarmless ==
    \A i \in Tasks :
        LET obj == docs[i] IN
        /\ \A key \in writes[i] :
              /\ key \in DOMAIN cache
              /\ (Has(obj, "githubRepo") /\ key = key1(obj.githubRepo)) =>
                    cache[key] = task[i].data
              /\ (Has(obj, "githubRepo") /\ key = key2(obj.githubRepo)) =>
                    cache[key] = task[i].stats
              /\ (Has(obj, "npmPackage") /\ key = npmKey(obj.npmPackage)) =>
                    cache[key] = task[i].item.npm
              /\ (Has(obj, "npmPackage") /\ key = bundlephobiaKey(obj.npmPackage)) =>
                    cache[key] = task[i].item.bundlephobia
        /\ task[i].pc = "fulfilled" =>
              /\ Has(obj, "githubRepo") =>
                    task[i].item.github = CachedGithub(cache, obj.githubRepo)
              /\ Has(obj, "npmPackage") =>
                    task[i].item.npm = cache[npmKey(obj.npmPackage)]
              /\ BundlephobiaAsked(obj) =>
                    task[i].item.bundlephobia = cache[bundlephobiaKey(obj.npmPackage)]
              /\ \A j \in Tasks :
                    (task[j].pc = "fulfilled" /\ Has(obj, "githubRepo") /\ Has(docs[j], "githubRepo")
                        /\ obj.githubRepo = docs[j].githubRepo) =>
                       task[i].item.github = task[j].item.github

\* Two records of the same repository and package start from an empty
\* cache, both miss, both make the same repository and package requests, and
\* both complete.
C14_Witness ==
    \E i, j \in Tasks :
        /\ i /= j
        /\ start = EmptyObj
        /\ Has(docs[i], "githubRepo") /\ Has(docs[j], "githubRepo")
        /\ docs[i].githubRepo = docs[j].githubRepo
        /\ Has(docs[i], "npmPackage") /\ Has(docs[j], "npmPackage")
        /\ docs[i].npmPackage = docs[j].npmPackage
        /\ \A t \in {i, j} :
              /\ task[t].pc = "fulfilled"
              /\ \E k \in 1..Len(fetches[t]) : fetches[t][k].api = "github/repos"
              /\ \E k \in 1..Len(fetches[t]) : fetches[t][k].api = "npm/downloads"

----------------------------------------------------------------------------
\* Request k of task i has been answered with a response (not an error).
Answered(i, k) == k <= Len(received[i]) /\ Has(received[i][k], "data")

\* C15: on a cache miss the npm block's downloads is the downloads field of
\* the payload (data) of the registry's response, and the bundlephobia
\* block's rawSize and gzipSize are the size and gzip fields of the payload
\* of the bundle-size response; these values are what the cache then holds
\* for a later run.
C15_PayloadFieldsCopied ==
    \A i \in Tasks : \A k \in 1..Len(fetches[i]) :
        /\ (fetches[i][k].api = "npm/downloads" /\ Answered(i, k)) =>
              LET payload == received[i][k].data
                  npm == task[i].item.npm
              IN  /\ Has(npm, "downloads")
                  /\ npm.downloads = payload.downloads
                  /\ npmKey(docs[i].npmPackage) \in writes[i]
        /\ (fetches[i][k].api = "bundlephobia/size" /\ Answered(i, k)) =>
              LET payload == received[i][k].data
                  bundlephobia == task[i].item.bundlephobia
              IN  /\ Has(bundlephobia, "rawSize") /\ Has(bundlephobia, "gzipSize")
                  /\ bundlephobia.rawSize = payload.size
                  /\ bundlephobia.gzipSize = payload.gzip

----------------------------------------------------------------------------
\* C16: the contributors value of every github block, and every value the
\* cache holds under a gh-{repo}-contributors key, is a non-negative integer,
\* whatever the first page of contributors was: also a full page whose Link
\* header has no rel="last" part, or none with a page number.
C16_ContributorsNonNegative ==
    /\ \A i \in Tasks :
          (Has(task[i].item, "github") /\ Has(task[i].item.github, "contributors")) =>
             task[i].item.github.contributors \in Nat
    /\ \A i \in Tasks :
          (Has(docs[i], "githubRepo") /\ key2(docs[i].githubRepo) \in DOMAIN cache) =>
             cache[key2(docs[i].githubRepo)].contributors \in Nat

----------------------------------------------------------------------------
\* Task i made a request to the api.
Asked(i, api) == \E k \in 1..Len(fetches[i]) : fetches[i][k].api = api

\* C17: write-back.  A sub-procedure that missed the cache and fetched has
\* written its key by the time its block is in the record; so when
\* getLibraries has resolved the cache holds every enrichment key of every
\* record, and the call that follows a resolved call makes no request.
C17_WriteBack ==
    /\ \A i \in Tasks :
          LET obj == docs[i] IN
          /\ writes[i] \subseteq DOMAIN cache
          /\ (Has(obj, "githubRepo") /\ Has(task[i].item, "github")) =>
                /\ Asked(i, "github/repos") => key1(obj.githubRepo) \in writes[i]
                /\ Asked(i, "github/contributors") => key2(obj.githubRepo) \in writes[i]
          /\ \A k \in 1..Len(fetches[i]) :
                /\ (fetches[i][k].api = "npm/downloads" /\ Answered(i, k)) =>
                      /\ npmKey(obj.npmPackage) \in writes[i]
                      /\ Has(task[i].item, "npm")
                /\ (fetches[i][k].api = "bundlephobia/size" /\ Answered(i, k)) =>
                      /\ bundlephobiaKey(obj.npmPackage) \in writes[i]
                      /\ Has(task[i].item, "bundlephobia")
    /\ outcome.state = "resolved" =>
          \A i \in Tasks : NeededKeys(docs[i]) \subseteq DOMAIN cache
    /\ (calls >= 2 /\ prev.outcome.state = "resolved") =>
          /\ ~Fetched
          /\ \A i \in Tasks : task[i].pc = "fulfilled"
          /\ outcome.state = "resolved"

\* A call that started from an empty cache and fetched all four keys of a
\* record resolved, and the call after it resolved without a request.
C17_Witness ==
    /\ calls = 2
    /\ prev.outcome.state = "resolved"
    /\ prev.start = EmptyObj
    /\ prev.fetched
    /\ \E i \in Tasks : Cardinality(NeededKeys(docs[i])) = 4
    /\ outcome.state = "resolved"
    /\ ~Fetched

----------------------------------------------------------------------------
\* C18: the completeness check cannot fail.  Every task that fulfilled has
\* pushed one record and no other task has pushed any, so when all have
\* fulfilled items is as long as paths and getLibraries resolves with it: no
\* call rejects with 'Incomplete data'.
C18_CompletenessHolds ==
    /\ Len(items) = Cardinality({i \in Tasks : task[i].pc = "fulfilled"})
    /\ \A i \in Tasks : task[i].pc = "fulfilled" => Returned(task[i].item)
    /\ (calls > 0 /\ \A i \in Tasks : task[i].pc = "fulfilled") =>
          /\ Len(items) = Len(paths)
          /\ outcome = [state |-> "resolved", value |-> items]
    /\ outcome.state = "rejected" => outcome.err.kind /= "Incomplete data"

\* Both tasks fetched and fulfilled, the task of the second file first: the
\* check ran over two records pushed out of the order of the listing.
C18_Witness ==
    /\ Len(paths) = 2
    /\ \A i \in Tasks : task[i].pc = "fulfilled" /\ fetches[i] /= <<>>
    /\ items = <<task[2].item, task[1].item>>
    /\ task[1].item /= task[2].item
    /\ outcome.state = "resolved"

----------------------------------------------------------------------------
\* What is done on behalf of the record of task i.
Activity(i) == <<task[i], fetches[i], received[i], lookups[i], writes[i]>>

----------------------------------------------------------------------------
\* C20: the run terminates.  With every request handed to the fetcher
\* eventually settled, a task that awaits a request eventually fulfils (its
\* record pushed) or rejects, a pending call of getLibraries eventually
\* resolves or rejects, and no record makes more than five requests.
C20_Terminates ==
    /\ [](\A i \in Tasks : Len(fetches[i]) <= 5)
    /\ \A i \in Tasks : (task[i].pc \in AwaitPcs) ~> (task[i].pc \in SettledPcs)
    /\ (outcome.state = "pending") ~> (outcome.state \in {"resolved", "rejected"})

\* A record made all five requests (repository, two pages of contributors,
\* downloads, bundle size) and the call resolved.
C20_Witness ==
    \E i \in Tasks :
        /\ Len(fetches[i]) = 5
        /\ Len(received[i]) = 5
        /\ task[i].pc = "fulfilled"
        /\ outcome.state = "resolved"

====
